---------------------------- MODULE Spec2Model ----------------------------
(***************************************************************************)
(* Model of helpers/filesystem_load_simulator.py: five kinds of daemon     *)
(* threads (FileCreator, FileDeleter, MetaChanger, Reader, Writer) working  *)
(* on one shared list of filenames (fset) under one Lock (lck), and the     *)
(* main thread that starts them, sleeps, and tears the simulation down.     *)
(*                                                                         *)
(* A filename is modelled by the number "%.05f" % time() prints, the disk   *)
(* by the set of names that exist in the simulation directory.  File        *)
(* contents, sizes and permission bits are not modelled.  Every data I/O    *)
(* (open/read/write) either succeeds or raises; remove() and chmod() raise  *)
(* OSError exactly when the file is absent.                                 *)
(***************************************************************************)
EXTENDS Integers, Sequences, FiniteSets, TLC

(* ------------------------------ bounds -------------------------------- *)
\* the clock (in ticks) runs over 0..MaxTime
MaxTime == 2
\* at most this many creation cycles are started in one run
MaxCreates == 2

(* --------------------------- program constants ------------------------ *)
\* clock ticks per unit of the last printed decimal of "%.05f" (line 53)
TicksPerUnit == 2

\* the value of a local `file` / `filename` that holds nothing (None)
None == -1

(* ------------------------------ threads ------------------------------- *)
\* -ct, -dt, -mt, -rt, -wt: the threads main starts (lines 260-264)
Creators == {"c1", "c2"}
Deleters == {"d1"}
MetaChangers == {"m1"}
Readers == {"r1"}
Writers == {"w1"}
Claimers == Deleters \cup MetaChangers \cup Readers \cup Writers
Actors == Creators \cup Claimers
Main == "main"

VARIABLES
    fset,        \* the shared list of filenames (main: fset = [])
    lock,        \* the thread holding lck, or "free"
    disk,        \* the names of the files in the simulation directory
    now,         \* the clock time() reads, in ticks
    pc,          \* where each actor thread is in its run() loop
    file,        \* each actor's local `file` / `filename`
    mainpc,      \* where main is
    idx,         \* main's position in `for file in fset` (line 275)
    listing,     \* what listdir(directory) returned, not yet removed (line 276)
    dirResolves, \* whether args.d still names the directory after chdir(args.d)
    created,     \* number of creation cycles started
    inserted,    \* history: names a FileCreator has appended to fset
    retired,     \* history: names a FileDeleter claimed or a Writer failed to write
    succeeded    \* history: names of the files a FileCreator created without error

vars == <<fset, lock, disk, now, pc, file, mainpc, idx, listing, dirResolves,
          created, inserted, retired, succeeded>>
mainVars == <<mainpc, idx, listing, dirResolves>>

(* ------------------------------ helpers ------------------------------- *)
Range(s) == {s[i] : i \in 1..Len(s)}

\* list.remove(x): removes the first element equal to x
FirstIndex(s, x) == CHOOSE i \in 1..Len(s) : s[i] = x /\ \A j \in 1..(i-1) : s[j] # x
ListRemove(s, x) ==
    LET k == FirstIndex(s, x)
    IN  [i \in 1..(Len(s) - 1) |-> IF i < k THEN s[i] ELSE s[i + 1]]

\* "%.05f" % time(): the clock reading rounded to the last printed decimal
Format(t) == (t + TicksPerUnit \div 2) \div TicksPerUnit

Names == {Format(t) : t \in 0..MaxTime}

\* the process is alive: main has neither returned nor died of an exception
ProcessAlive ==
    mainpc \in {"running", "stopping", "drain", "listdir", "sweep", "report", "raise"}

(* ------------------------------- Init --------------------------------- *)
\* main up to line 258: lck = Lock(), fset = [], an empty simulation directory;
\* -d is either a path that resolves the same after chdir (absolute, ".")
\* or one that does not (a relative path)
Init ==
    /\ fset = << >>
    /\ lock = "free"
    /\ disk = {}
    /\ now = 0
    /\ pc = [a \in Actors |-> "unstarted"]
    /\ file = [a \in Actors |-> None]
    /\ mainpc = "idle"
    /\ idx = 1
    /\ listing = {}
    /\ dirResolves \in BOOLEAN
    /\ created = 0
    /\ inserted = {}
    /\ retired = {}
    /\ succeeded = {}

\* time() advances
Tick ==
    /\ ProcessAlive
    /\ now < MaxTime
    /\ now' = now + 1
    /\ UNCHANGED <<fset, lock, disk, pc, file, mainVars, created, inserted, retired, succeeded>>

(* ------------------------ the Lock and the list ------------------------ *)
\* Acquire that does not wait for the lock: the with block is entered while
\* another thread is inside its own
AcquireNoWait(a, from, to) ==
    /\ ProcessAlive
    /\ pc[a] = from
    /\ lock' = a
    /\ pc' = [pc EXCEPT ![a] = to]
    /\ UNCHANGED <<fset, disk, now, file, mainVars, created, inserted, retired, succeeded>>

\* `with self.lock:` entered: blocks until the lock is free
Acquire(a, from, to) ==
    /\ ProcessAlive
    /\ pc[a] = from
    /\ lock = "free"
    /\ lock' = a
    /\ pc' = [pc EXCEPT ![a] = to]
    /\ UNCHANGED <<fset, disk, now, file, mainVars, created, inserted, retired, succeeded>>

\* ClaimRandom that leaves its critical section without releasing the lock
\* when the list is empty (acquire()/release() with an early exit)
ClaimRandomNoRelease(a, then, release) ==
    /\ ProcessAlive
    /\ pc[a] = "claim"
    /\ lock = a
    /\ IF Len(fset) # 0
       THEN \E i \in 1..Len(fset) :
              /\ file' = [file EXCEPT ![a] = fset[i]]
              /\ fset' = ListRemove(fset, fset[i])
              /\ pc' = [pc EXCEPT ![a] = then]
              /\ lock' = IF release THEN "free" ELSE lock
       ELSE /\ pc' = [pc EXCEPT ![a] = "sleep"]
            /\ lock' = lock
            /\ UNCHANGED <<fset, file>>

\* ClaimRandom whose with block does not end after the claim: the thread
\* goes on to its I/O with the lock held
ClaimRandomKeepsLock(a, then, release) ==
    /\ ProcessAlive
    /\ pc[a] = "claim"
    /\ lock = a
    /\ IF Len(fset) # 0
       THEN \E i \in 1..Len(fset) :
              /\ file' = [file EXCEPT ![a] = fset[i]]
              /\ fset' = ListRemove(fset, fset[i])
              /\ pc' = [pc EXCEPT ![a] = then]
              /\ lock' = lock
       ELSE /\ pc' = [pc EXCEPT ![a] = "sleep"]
            /\ lock' = "free"
            /\ UNCHANGED <<fset, file>>

\* ClaimRandom without the test of len(self.set): choice() of an empty list
\* raises IndexError, which leaves the with block and ends the thread
ClaimRandomUnchecked(a, then, release) ==
    /\ ProcessAlive
    /\ pc[a] = "claim"
    /\ lock = a
    /\ IF Len(fset) # 0
       THEN \E i \in 1..Len(fset) :
              /\ file' = [file EXCEPT ![a] = fset[i]]
              /\ fset' = ListRemove(fset, fset[i])
              /\ pc' = [pc EXCEPT ![a] = then]
              /\ lock' = IF release THEN "free" ELSE lock
       ELSE /\ pc' = [pc EXCEPT ![a] = "dead"]
            /\ lock' = "free"
            /\ UNCHANGED <<fset, file>>

\* if len(self.set) != 0: file = choice(self.set); self.set.remove(file)
\* (the test and both statements, run with the lock held); `then` is where
\* the thread goes with a file, `release` whether the with block ends here
ClaimRandom(a, then, release) ==
    /\ ProcessAlive
    /\ pc[a] = "claim"
    /\ lock = a
    /\ IF Len(fset) # 0
       THEN \E i \in 1..Len(fset) :
              /\ file' = [file EXCEPT ![a] = fset[i]]
              /\ fset' = ListRemove(fset, fset[i])
              /\ pc' = [pc EXCEPT ![a] = then]
              /\ lock' = IF release THEN "free" ELSE lock
       ELSE /\ pc' = [pc EXCEPT ![a] = "sleep"]
            /\ lock' = "free"
            /\ UNCHANGED <<fset, file>>

\* with self.lock: self.set.append(file); then the next cycle (file = None)
AppendFile(a) ==
    /\ ProcessAlive
    /\ pc[a] = "append"
    /\ lock = a
    /\ fset' = Append(fset, file[a])
    /\ lock' = "free"
    /\ pc' = [pc EXCEPT ![a] = "sleep"]
    /\ file' = [file EXCEPT ![a] = None]


(* ----------------------------- FileCreator ----------------------------- *)
\* line 53: filename = "%.05f" % time(), after the sleep of lines 51-52
CreatorName(c) ==
    /\ ProcessAlive
    /\ pc[c] = "sleep"
    /\ created < MaxCreates
    /\ created' = created + 1
    /\ file' = [file EXCEPT ![c] = Format(now)]
    /\ pc' = [pc EXCEPT ![c] = "create"]
    /\ UNCHANGED <<fset, lock, disk, now, mainVars, inserted, retired, succeeded>>

\* CreatorCreate whose handler swallows the exception and keeps filename:
\* the name of a failed creation goes on to the append
CreatorCreateIgnoresFailure(c) ==
    /\ ProcessAlive
    /\ pc[c] = "create"
    /\ \E ok \in BOOLEAN, partial \in BOOLEAN :
         IF ok
         THEN /\ disk' = disk \cup {file[c]}
              /\ succeeded' = succeeded \cup {file[c]}
         ELSE /\ disk' = IF partial THEN disk \cup {file[c]} ELSE disk
              /\ succeeded' = succeeded
    /\ pc' = [pc EXCEPT ![c] = "lock"]
    /\ UNCHANGED <<fset, lock, now, file, mainVars, created, inserted, retired>>

\* lines 54-58: open(filename, 'w+') creates (or truncates) the file and the
\* bytes of /dev/urandom are written; any exception goes to the handler.  A
\* failed creation leaves the partial file or no file at all.
CreatorCreate(c) ==
    /\ ProcessAlive
    /\ pc[c] = "create"
    /\ \E ok \in BOOLEAN, partial \in BOOLEAN :
         IF ok
         THEN /\ disk' = disk \cup {file[c]}
              /\ pc' = [pc EXCEPT ![c] = "lock"]
              /\ succeeded' = succeeded \cup {file[c]}
         ELSE /\ disk' = IF partial THEN disk \cup {file[c]} ELSE disk
              /\ pc' = [pc EXCEPT ![c] = "cleanup"]
              /\ succeeded' = succeeded
    /\ UNCHANGED <<fset, lock, now, file, mainVars, created, inserted, retired>>

\* CreatorCleanup without filename = None: the failed file is removed and
\* its name is appended all the same
CreatorCleanupStillAppends(c) ==
    /\ ProcessAlive
    /\ pc[c] = "cleanup"
    /\ disk' = disk \ {file[c]}
    /\ pc' = [pc EXCEPT ![c] = "lock"]
    /\ UNCHANGED <<fset, lock, now, file, mainVars, created, inserted, retired, succeeded>>

\* lines 59-64: remove(filename), OSError ignored; filename = None, so the
\* append of lines 65-67 is skipped
CreatorCleanup(c) ==
    /\ ProcessAlive
    /\ pc[c] = "cleanup"
    /\ disk' = disk \ {file[c]}
    /\ file' = [file EXCEPT ![c] = None]
    /\ pc' = [pc EXCEPT ![c] = "sleep"]
    /\ UNCHANGED <<fset, lock, now, mainVars, created, inserted, retired, succeeded>>

\* line 66: with self.lock
CreatorAcquire(c) == Acquire(c, "lock", "append")

\* line 67: self.set.append(filename)
CreatorAppend(c) ==
    /\ AppendFile(c)
    /\ inserted' = inserted \cup {file[c]}
    /\ UNCHANGED <<disk, now, mainVars, created, retired, succeeded>>

(* ----------------------------- FileDeleter ----------------------------- *)
\* line 82: with self.lock
DeleterAcquire(d) == Acquire(d, "sleep", "claim")

\* lines 83-85, the lock stays held for the remove of line 87
DeleterClaim(d) ==
    /\ ClaimRandom(d, "remove", FALSE)
    /\ retired' = IF file'[d] # None THEN retired \cup {file'[d]} ELSE retired
    /\ UNCHANGED <<disk, now, mainVars, created, inserted, succeeded>>

\* lines 86-89: remove(file), OSError ignored; the with block ends
DeleterRemove(d) ==
    /\ ProcessAlive
    /\ pc[d] = "remove"
    /\ lock = d
    /\ disk' = disk \ {file[d]}
    /\ lock' = "free"
    /\ file' = [file EXCEPT ![d] = None]
    /\ pc' = [pc EXCEPT ![d] = "sleep"]
    /\ UNCHANGED <<fset, now, mainVars, created, inserted, retired, succeeded>>

(* ----------------------------- MetaChanger ----------------------------- *)
\* line 104: with self.lock
MetaAcquire(m) == Acquire(m, "sleep", "claim")

\* lines 105-107
MetaClaim(m) ==
    /\ ClaimRandom(m, "chmod", TRUE)
    /\ UNCHANGED <<disk, now, mainVars, created, inserted, retired, succeeded>>

\* MetaChmod that gives the file up when chmod fails: file = None in the
\* handler, so the append is skipped
MetaChmodDropsOnFailure(m) ==
    /\ ProcessAlive
    /\ pc[m] = "chmod"
    /\ IF file[m] \in disk
       THEN /\ pc' = [pc EXCEPT ![m] = "lock"]
            /\ file' = file
       ELSE /\ pc' = [pc EXCEPT ![m] = "sleep"]
            /\ file' = [file EXCEPT ![m] = None]
    /\ UNCHANGED <<fset, lock, disk, now, mainVars, created, inserted, retired, succeeded>>

\* lines 109-112: chmod(file, ...) succeeds, or raises OSError on an absent
\* file and the handler passes; either way line 113 is next (permission bits
\* are not modelled, so the disk does not change)
MetaChmod(m) ==
    /\ ProcessAlive
    /\ pc[m] = "chmod"
    /\ IF file[m] \in disk
       THEN pc' = [pc EXCEPT ![m] = "lock"]
       ELSE pc' = [pc EXCEPT ![m] = "lock"]
    /\ UNCHANGED <<fset, lock, disk, now, file, mainVars, created, inserted, retired, succeeded>>

\* line 113: with self.lock
MetaReacquire(m) == Acquire(m, "lock", "append")

\* line 114: self.set.append(file)
MetaAppend(m) ==
    /\ AppendFile(m)
    /\ UNCHANGED <<disk, now, mainVars, created, inserted, retired, succeeded>>

(* -------------------------------- Reader ------------------------------- *)
\* line 130: with self.lock
ReaderAcquire(r) == Acquire(r, "sleep", "claim")

\* lines 131-133
ReaderClaim(r) ==
    /\ ClaimRandom(r, "read", TRUE)
    /\ UNCHANGED <<disk, now, mainVars, created, inserted, retired, succeeded>>

\* ReaderRead with the read done under the lock taken by acquire() with no
\* try/finally: the exception ends the thread with the lock held
ReaderReadDiesWithLock(r) ==
    /\ ProcessAlive
    /\ pc[r] = "read"
    /\ \E ok \in BOOLEAN :
         IF ok /\ file[r] \in disk
         THEN /\ pc' = [pc EXCEPT ![r] = "lock"]
              /\ UNCHANGED <<file, lock>>
         ELSE /\ lock = "free"
              /\ lock' = r
              /\ pc' = [pc EXCEPT ![r] = "dead"]
              /\ file' = [file EXCEPT ![r] = None]
    /\ UNCHANGED <<fset, disk, now, mainVars, created, inserted, retired, succeeded>>

\* lines 135-137: open(file) raises IOError when the file is absent, and the
\* open or the read may raise for any other reason; nothing catches it, so
\* the exception ends run() and the thread
ReaderRead(r) ==
    /\ ProcessAlive
    /\ pc[r] = "read"
    /\ \E ok \in BOOLEAN :
         IF ok /\ file[r] \in disk
         THEN /\ pc' = [pc EXCEPT ![r] = "lock"]
              /\ file' = file
         ELSE /\ pc' = [pc EXCEPT ![r] = "dead"]
              /\ file' = [file EXCEPT ![r] = None]
    /\ UNCHANGED <<fset, lock, disk, now, mainVars, created, inserted, retired, succeeded>>

\* line 138: with self.lock
ReaderReacquire(r) == Acquire(r, "lock", "append")

\* line 139: self.set.append(file)
ReaderAppend(r) ==
    /\ AppendFile(r)
    /\ UNCHANGED <<disk, now, mainVars, created, inserted, retired, succeeded>>

(* -------------------------------- Writer ------------------------------- *)
\* line 156: with self.lock
WriterAcquire(w) == Acquire(w, "sleep", "claim")

\* lines 157-159
WriterClaim(w) ==
    /\ ClaimRandom(w, "write", TRUE)
    /\ UNCHANGED <<disk, now, mainVars, created, inserted, retired, succeeded>>

\* lines 161-166: open(file, 'w+') creates the file when it is absent and
\* truncates it otherwise; dest.write(source.read(bytes)) succeeds or raises
\* IOError, which line 166 catches.  An open() that raises is outside the
\* try: nothing catches it and the thread ends.
WriterWrite(w) ==
    /\ ProcessAlive
    /\ pc[w] = "write"
    /\ \E outcome \in {"written", "write fails", "open fails"} :
         \/ /\ outcome = "written"
            /\ disk' = disk \cup {file[w]}
            /\ pc' = [pc EXCEPT ![w] = "lock"]
            /\ UNCHANGED <<file, retired>>
         \/ /\ outcome = "write fails"
            /\ disk' = disk \cup {file[w]}
            /\ pc' = [pc EXCEPT ![w] = "unlink"]
            /\ retired' = retired \cup {file[w]}
            /\ UNCHANGED file
         \/ /\ outcome = "open fails"
            /\ pc' = [pc EXCEPT ![w] = "dead"]
            /\ file' = [file EXCEPT ![w] = None]
            /\ UNCHANGED <<disk, retired>>
    /\ UNCHANGED <<fset, lock, now, mainVars, created, inserted, succeeded>>

\* lines 167-168, in the IOError handler: remove(file); file = None.  An
\* absent file makes remove() raise OSError, which nothing catches: the
\* thread ends.  Otherwise line 169 skips the append.
WriterUnlink(w) ==
    /\ ProcessAlive
    /\ pc[w] = "unlink"
    /\ IF file[w] \in disk
       THEN /\ disk' = disk \ {file[w]}
            /\ pc' = [pc EXCEPT ![w] = "sleep"]
       ELSE /\ disk' = disk
            /\ pc' = [pc EXCEPT ![w] = "dead"]
    /\ file' = [file EXCEPT ![w] = None]
    /\ UNCHANGED <<fset, lock, now, mainVars, created, inserted, retired, succeeded>>

\* line 170: with self.lock
WriterReacquire(w) == Acquire(w, "lock", "append")

\* line 171: self.set.append(file)
WriterAppend(w) ==
    /\ AppendFile(w)
    /\ UNCHANGED <<disk, now, mainVars, created, inserted, retired, succeeded>>

(* --------------------------------- main -------------------------------- *)
\* lines 258-264: chdir(directory) and the threads are started
MainStart ==
    /\ mainpc = "idle"
    /\ mainpc' = "running"
    /\ pc' = [a \in Actors |-> "sleep"]
    /\ UNCHANGED <<fset, lock, disk, now, file, idx, listing, dirResolves,
                   created, inserted, retired, succeeded>>

\* lines 266-267 and 272: sleep(args.up) ends and KeyboardInterrupt is raised,
\* or Ctrl-C raises it during the sleep; no thread is stopped
MainInterrupt ==
    /\ mainpc = "running"
    /\ mainpc' = "stopping"
    /\ UNCHANGED <<fset, lock, disk, now, pc, file, idx, listing, dirResolves,
                   created, inserted, retired, succeeded>>

\* line 274: with lck
MainAcquire ==
    /\ mainpc = "stopping"
    /\ lock = "free"
    /\ lock' = Main
    /\ mainpc' = "drain"
    /\ idx' = 1
    /\ UNCHANGED <<fset, disk, now, pc, file, listing, dirResolves,
                   created, inserted, retired, succeeded>>

\* line 275: [remove(file) for file in fset], one file per step.  remove() of
\* an absent file raises OSError: the with block releases the lock and the
\* exception leaves main.  fset itself is not changed.
MainDrain ==
    /\ mainpc = "drain"
    /\ lock = Main
    /\ IF idx <= Len(fset)
       THEN IF fset[idx] \in disk
            THEN /\ disk' = disk \ {fset[idx]}
                 /\ idx' = idx + 1
                 /\ UNCHANGED <<lock, mainpc>>
            ELSE /\ lock' = "free"
                 /\ mainpc' = "raise"
                 /\ UNCHANGED <<disk, idx>>
       ELSE /\ mainpc' = "listdir"
            /\ UNCHANGED <<lock, disk, idx>>
    /\ UNCHANGED <<fset, now, pc, file, listing, dirResolves, created, inserted, retired, succeeded>>

\* line 276: listdir(directory), evaluated after chdir(directory): a path that
\* no longer resolves raises OSError
MainListdir ==
    /\ mainpc = "listdir"
    /\ lock = Main
    /\ IF dirResolves
       THEN /\ listing' = disk
            /\ mainpc' = "sweep"
            /\ lock' = lock
       ELSE /\ listing' = listing
            /\ mainpc' = "raise"
            /\ lock' = "free"
    /\ UNCHANGED <<fset, disk, now, pc, file, idx, dirResolves, created, inserted, retired, succeeded>>

\* line 276: [remove(file) for file in <the listing>], one file per step, in
\* the order listdir gave (arbitrary); then the with block ends
MainSweep ==
    /\ mainpc = "sweep"
    /\ lock = Main
    /\ IF listing # {}
       THEN \E f \in listing :
              IF f \in disk
              THEN /\ disk' = disk \ {f}
                   /\ listing' = listing \ {f}
                   /\ UNCHANGED <<lock, mainpc>>
              ELSE /\ lock' = "free"
                   /\ mainpc' = "raise"
                   /\ UNCHANGED <<disk, listing>>
       ELSE /\ lock' = "free"
            /\ mainpc' = "report"
            /\ UNCHANGED <<disk, listing>>
    /\ UNCHANGED <<fset, now, pc, file, idx, dirResolves, created, inserted, retired, succeeded>>

\* lines 277-280 and 283: the report is printed, main returns 0 and
\* sys.exit ends the process; or the exception that left main ends it.
\* The daemon threads end with the process, wherever they are.
MainExit ==
    /\ mainpc \in {"report", "raise"}
    /\ mainpc' = IF mainpc = "report" THEN "terminated" ELSE "crashed"
    /\ UNCHANGED <<fset, lock, disk, now, pc, file, idx, listing, dirResolves,
                   created, inserted, retired, succeeded>>

(* --------------------------------- Next -------------------------------- *)
Next ==
    \/ Tick
    \/ \E c \in Creators : CreatorName(c)
    \/ \E c \in Creators : CreatorCreate(c)
    \/ \E c \in Creators : CreatorCleanup(c)
    \/ \E c \in Creators : CreatorAcquire(c)
    \/ \E c \in Creators : CreatorAppend(c)
    \/ \E d \in Deleters : DeleterAcquire(d)
    \/ \E d \in Deleters : DeleterClaim(d)
    \/ \E d \in Deleters : DeleterRemove(d)
    \/ \E m \in MetaChangers : MetaAcquire(m)
    \/ \E m \in MetaChangers : MetaClaim(m)
    \/ \E m \in MetaChangers : MetaChmod(m)
    \/ \E m \in MetaChangers : MetaReacquire(m)
    \/ \E m \in MetaChangers : MetaAppend(m)
    \/ \E r \in Readers : ReaderAcquire(r)
    \/ \E r \in Readers : ReaderClaim(r)
    \/ \E r \in Readers : ReaderRead(r)
    \/ \E r \in Readers : ReaderReacquire(r)
    \/ \E r \in Readers : ReaderAppend(r)
    \/ \E w \in Writers : WriterAcquire(w)
    \/ \E w \in Writers : WriterClaim(w)
    \/ \E w \in Writers : WriterWrite(w)
    \/ \E w \in Writers : WriterUnlink(w)
    \/ \E w \in Writers : WriterReacquire(w)
    \/ \E w \in Writers : WriterAppend(w)
    \/ MainStart
    \/ MainInterrupt
    \/ MainAcquire
    \/ MainDrain
    \/ MainListdir
    \/ MainSweep
    \/ MainExit

Spec == Init /\ [][Next]_vars

\* The scheduling the run relies on: every thread that can take a step is
\* eventually scheduled (OS threads), the clock advances, and sleep(args.up)
\* ends.  Which outcome an I/O has is not a matter of fairness.
ActorNext(a) ==
    \/ a \in Creators /\ (CreatorName(a) \/ CreatorCreate(a) \/ CreatorCleanup(a)
                            \/ CreatorAcquire(a) \/ CreatorAppend(a))
    \/ a \in Deleters /\ (DeleterAcquire(a) \/ DeleterClaim(a) \/ DeleterRemove(a))
    \/ a \in MetaChangers /\ (MetaAcquire(a) \/ MetaClaim(a) \/ MetaChmod(a)
                                \/ MetaReacquire(a) \/ MetaAppend(a))
    \/ a \in Readers /\ (ReaderAcquire(a) \/ ReaderClaim(a) \/ ReaderRead(a)
                           \/ ReaderReacquire(a) \/ ReaderAppend(a))
    \/ a \in Writers /\ (WriterAcquire(a) \/ WriterClaim(a) \/ WriterWrite(a)
                           \/ WriterUnlink(a) \/ WriterReacquire(a) \/ WriterAppend(a))
MainNext ==
    MainStart \/ MainInterrupt \/ MainAcquire \/ MainDrain \/ MainListdir
        \/ MainSweep \/ MainExit
FairSpec ==
    /\ Spec
    /\ \A a \in Actors : WF_vars(ActorNext(a))
    /\ WF_vars(MainNext)
    /\ WF_vars(Tick)

(* ======================= properties of the claims ====================== *)
\* the name a claiming thread holds: claimed and neither returned nor dropped
Holds(a, f) == a \in Claimers /\ file[a] = f /\ f # None

\* C1: at any instant a filename is held claimed by at most one of the
\* Deleter, MetaChanger, Reader and Writer threads.
MutualExclusion ==
    \A a \in Claimers, b \in Claimers :
        (a # b /\ file[a] # None) => file[a] # file[b]

\* C2: the Registry (fset) never contains a filename more than once.
NoDuplicates ==
    \A i \in 1..Len(fset), j \in 1..Len(fset) : i # j => fset[i] # fset[j]

\* C3: no filename is lost: every name ever inserted is in the Registry, or
\* held by a running actor, or no longer on disk (deleted or drained).
NoNameLost ==
    \A f \in inserted :
        \/ f \in Range(fset)
        \/ ProcessAlive /\ \E a \in Claimers : Holds(a, f) /\ pc[a] # "dead"
        \/ f \notin disk

\* C4: once the stop path has run through the Registry (line 275 done, the
\* lock still held), the Registry is empty: the drain removed every name
\* that was in it when main took the lock.
DrainEmptiesRegistry ==
    (mainpc \in {"listdir", "sweep"} /\ lock = Main) => Len(fset) = 0

\* C5: a filename a Deleter claimed, or a Writer failed to write, is never
\* in the Registry again.
RetiredNeverBack ==
    \A f \in retired : f \notin Range(fset)

\* C6: every name claimed by a Reader, a MetaChanger or a Writer whose write
\* succeeded is eventually appended again by that actor, and every file a
\* Creator created is eventually appended.
EventuallyReturned ==
    /\ \A a \in MetaChangers : (pc[a] = "chmod") ~> (pc[a] = "sleep")
    /\ \A a \in Readers : (pc[a] = "read") ~> (pc[a] = "sleep")
    /\ \A a \in Writers \cup Creators : (pc[a] = "lock") ~> (pc[a] = "sleep")

\* C7: a cycle of a Deleter, MetaChanger, Reader or Writer that finds the
\* Registry empty changes neither the Registry nor the disk, raises nothing
\* and returns the actor to its sleep with the lock released.
EmptyCycleIsNoOp ==
    [][\A a \in Claimers :
          (Len(fset) = 0 /\ pc[a] \in {"sleep", "claim"} /\ pc'[a] # pc[a]) =>
             /\ fset' = fset
             /\ disk' = disk
             /\ file'[a] = None
             /\ pc[a] = "sleep" => (pc'[a] = "claim" /\ lock' = a)
             /\ pc[a] = "claim" => (pc'[a] = "sleep" /\ lock' = "free")]_vars

\* C7 witness: a claimer is in its cycle, holding the lock, on an empty
\* Registry while a file (created, not yet inserted) is on disk.
EmptyCycleReached ==
    \E a \in Claimers :
        pc[a] = "claim" /\ lock = a /\ Len(fset) = 0 /\ disk # {}

\* C8: after the Controller has finished its teardown and stopped, the
\* simulation directory contains no files.
DirectoryEmptyAfterStop ==
    mainpc = "terminated" => disk = {}

\* C9: every filename in the Registry names a file that exists on disk and
\* that no actor is operating on.
RegistryAtRest ==
    \A f \in Range(fset) : f \in disk /\ \A a \in Actors : file[a] # f

\* C10: from the start of teardown onward no actor performs a Registry
\* operation or a filesystem operation: every step taken while main is in
\* teardown is main's.
InTeardown == mainpc \in {"drain", "listdir", "sweep", "report", "raise"}
OperationPcs ==
    {"create", "cleanup", "claim", "append", "remove", "chmod", "read", "write", "unlink"}
ActorsHaltedInTeardown ==
    [][InTeardown => \A a \in Actors : pc[a] \in OperationPcs => pc'[a] = pc[a]]_vars

\* C11: once the run has been ended (duration elapsed or interrupt), main
\* eventually completes its teardown and reaches Terminated.  Checked under
\* FairLockSpec: main is also not starved of the lock.
FairLockSpec == FairSpec /\ SF_vars(MainAcquire)
TeardownCompletes ==
    (mainpc = "stopping") ~> (mainpc = "terminated")

\* C12: no two successful creation cycles produce the same filename: a
\* Creator that has just created its file has a name that no earlier and
\* no concurrent successful creation has.
UniqueCreatedNames ==
    \A c \in Creators :
        pc[c] \in {"lock", "append"} =>
            /\ file[c] \notin inserted
            /\ \A c2 \in Creators \ {c} :
                   pc[c2] \in {"lock", "append"} => file[c2] # file[c]

\* C13: in teardown a file that is already absent is ignored: with a
\* directory that listdir can list, teardown never ends by an exception.
TeardownIgnoresAbsentFile ==
    dirResolves => mainpc \notin {"raise", "crashed"}

\* C14: no actor holds the lock while it performs a filesystem operation.
IOPcs == {"create", "cleanup", "chmod", "read", "write", "unlink"}
NoLockDuringIO ==
    \A a \in Actors : pc[a] \in IOPcs \cup {"remove"} => lock # a

\* C14 as amended: a Creator, MetaChanger, Reader or Writer never holds the
\* lock while it performs a filesystem operation; a Deleter holds the lock
\* while it removes the file it claimed.
NoLockDuringIOExceptDeleter ==
    /\ \A a \in Actors \ Deleters : pc[a] \in IOPcs => lock # a
    /\ \A d \in Deleters : pc[d] = "remove" => lock = d

\* C14 witness: a Deleter is about to remove its file under the lock while
\* another actor is in its own filesystem operation.
DeleterRemovesWhileOtherIO ==
    \E d \in Deleters, a \in Actors \ Deleters :
        pc[d] = "remove" /\ lock = d /\ pc[a] \in IOPcs

\* C15: every Registry operation (claim, release, insert, the stop path's
\* deletion and sweep) runs with the lock held by the thread that performs
\* it, so no two threads are inside a Registry operation at once.
InRegistryOperation ==
    {a \in Actors : pc[a] \in {"claim", "append", "remove"}}
        \cup (IF mainpc \in {"drain", "listdir", "sweep"} THEN {Main} ELSE {})
RegistryOperationsExclusive ==
    \A t \in InRegistryOperation : lock = t

\* C15 witness: one actor is inside a claim while another actor and main
\* both wait for the lock.
RegistryOperationContended ==
    \E a \in Actors, b \in Actors :
        /\ a # b
        /\ pc[a] = "claim" /\ lock = a /\ Len(fset) # 0
        /\ pc[b] = "lock"
        /\ mainpc = "stopping"

\* C16: when a Reader's open or read fails only that Reader stops: the step
\* leaves the lock, the Registry, the disk, every other actor and main as
\* they were, and the dead Reader does not hold the lock.
ReaderFailureIsLocal ==
    [][\A r \in Readers :
          (pc[r] = "read" /\ pc'[r] = "dead") =>
             /\ lock' = lock
             /\ lock' # r
             /\ fset' = fset
             /\ disk' = disk
             /\ mainpc' = mainpc
             /\ \A a \in Actors \ {r} : pc'[a] = pc[a] /\ file'[a] = file[a]]_vars

\* C16 witness: a Reader has died while the simulation is running and
\* another actor is inside a Registry operation on a non-empty Registry.
ReaderDeadOthersRun ==
    \E r \in Readers, a \in Actors :
        /\ pc[r] = "dead"
        /\ mainpc = "running"
        /\ pc[a] = "claim" /\ lock = a /\ Len(fset) # 0

\* C17: a MetaChanger appends the filename it claimed exactly once, whether
\* the chmod succeeded or failed, and then goes to its next cycle: from the
\* chmod its steps are the lock, then one append of that name, then sleep.
MetaChangerReturnsOnce ==
    [][\A m \in MetaChangers :
          /\ (pc[m] = "chmod" /\ pc'[m] # pc[m]) =>
                (pc'[m] = "lock" /\ file'[m] = file[m] /\ fset' = fset)
          /\ (pc[m] = "lock" /\ pc'[m] # pc[m]) =>
                (pc'[m] = "append" /\ file'[m] = file[m] /\ fset' = fset)
          /\ (pc[m] = "append" /\ pc'[m] # pc[m]) =>
                (pc'[m] = "sleep" /\ fset' = Append(fset, file[m])
                    /\ file'[m] = None /\ lock' = "free")]_vars

\* C17 witness: a MetaChanger is about to append a name whose file is not on
\* disk (its chmod cannot have succeeded after the file was removed).
MetaChangerReturnsAbsentFile ==
    \E m \in MetaChangers :
        pc[m] = "append" /\ lock = m /\ file[m] # None /\ file[m] \notin disk

\* C18: when a creation fails the Creator removes the partial file if it is
\* there, leaves the Registry as it is, and goes to its next cycle.
CreatorFailureSkipsInsert ==
    [][\A c \in Creators :
          /\ (pc[c] = "create" /\ pc'[c] = "cleanup") => fset' = fset
          /\ (pc[c] = "cleanup" /\ pc'[c] # pc[c]) =>
                /\ disk' = disk \ {file[c]}
                /\ fset' = fset
                /\ lock' = lock
                /\ pc'[c] = "sleep"
                /\ file'[c] = None]_vars

\* C18 witness: a creation has failed leaving its partial file on disk,
\* while the Registry holds another name.
CreatorFailedWithPartialFile ==
    \E c \in Creators :
        pc[c] = "cleanup" /\ file[c] \in disk /\ Len(fset) # 0

\* C19: the Registry starts empty; every name in it, and every name a
\* claimer holds or appends, was inserted by a Creator after a successful
\* creation; a Creator's step never removes a name.
RegistryFedByCreators ==
    [][/\ mainpc = "idle" => fset = << >>
       /\ Range(fset') \subseteq inserted'
       /\ inserted' \subseteq succeeded'
       /\ \A a \in Claimers :
             /\ file'[a] # None => file'[a] \in inserted'
             /\ (pc[a] = "append" /\ pc'[a] # pc[a]) => fset' = Append(fset, file[a])
       /\ \A c \in Creators :
             pc'[c] # pc[c] => (fset' = fset \/ fset' = Append(fset, file[c]))]_vars

\* C19 witness: a claimer is about to append the name it claimed, which a
\* Creator inserted, to a Registry that holds another name.
ClaimerReturnsInsertedName ==
    \E a \in Claimers :
        pc[a] = "append" /\ lock = a /\ file[a] \in inserted /\ Len(fset) # 0

\* C20: the lock cannot deadlock: whoever holds it is inside a with block
\* and can take its next step without waiting; a thread that left its with
\* block, also by an exception, does not hold it; and while the simulation
\* is running some step is always possible.
LockNeverStuck ==
    /\ lock \in Actors \cup {Main, "free"}
    /\ lock \in Actors =>
          (pc[lock] \in {"claim", "append", "remove"}
              /\ (ProcessAlive => ENABLED ActorNext(lock)))
    /\ lock = Main => (mainpc \in {"drain", "listdir", "sweep"} /\ ENABLED MainNext)
    /\ ProcessAlive => ENABLED Next

\* C20 witness: an exception has ended main's teardown inside its with
\* block, and an actor has taken the lock after it.
LockTakenAfterMainRaised ==
    \E a \in Actors : mainpc = "raise" /\ lock = a

=============================================================================
